---- MODULE Spec2Model ----
(***************************************************************************)
(* Fire-riser layout compiler: the legacy layout (elkLayout with its       *)
(* manual bus router and its straight-line fallback), the declarative      *)
(* compiler (compileDSLToELK), the dispatcher layout(), and the Riser      *)
(* view's layout effect.                                                    *)
(*                                                                         *)
(* Points are <<x, y>>.  A JavaScript Map is a sequence of entries in      *)
(* insertion order (MapSet).  Array indices are the source's (0-based) in  *)
(* every id, and TLA+'s (1-based) inside the sequences.                    *)
(***************************************************************************)
EXTENDS Integers, Sequences, FiniteSets, TLC

VARIABLES spec, pc, compiler, engine, result, first, again, pending, gen, layoutData, error

vars == <<spec, pc, compiler, engine, result, first, again, pending, gen, layoutData, error>>

(***************************************************************************)
(* Bounds of the model.                                                    *)
(***************************************************************************)
MaxDevices == 3
MaxDslDevices == 2
MaxChanges == 3

(***************************************************************************)
(* Generic helpers.                                                        *)
(***************************************************************************)
Range(s) == {s[i] : i \in 1..Len(s)}

SeqsUpTo(S, n) == UNION {[1..k -> S] : k \in 0..n}

Indices(s) == [i \in 1..Len(s) |-> i]

Abs(n) == IF n < 0 THEN -n ELSE n

\* Math.max(...values) of a non-empty array
SeqMax(s) == CHOOSE m \in Range(s) : \A v \in Range(s) : v <= m

\* Math.min(...values), used by a mutant only
SeqMin(s) == CHOOSE m \in Range(s) : \A v \in Range(s) : m <= v

\* Map.prototype.set on a Map kept as a sequence of entries with field id:
\* a new key is appended, an existing key keeps its place and takes the value
MapSet(m, e) ==
  IF \E i \in 1..Len(m) : m[i].id = e.id
  THEN [i \in 1..Len(m) |-> IF m[i].id = e.id THEN e ELSE m[i]]
  ELSE Append(m, e)

RECURSIVE MapSetAll(_, _)
MapSetAll(m, es) ==
  IF es = <<>> THEN m ELSE MapSetAll(MapSet(m, Head(es)), Tail(es))

RECURSIVE Flatten(_)
Flatten(ss) == IF ss = <<>> THEN <<>> ELSE Head(ss) \o Flatten(Tail(ss))

MapKeys(m) == {m[i].id : i \in 1..Len(m)}

MapGet(m, k) == m[CHOOSE i \in 1..Len(m) : m[i].id = k]

(***************************************************************************)
(* Symbol size table of the legacy layout.                                 *)
(***************************************************************************)
DefaultSize == 20
ClearanceBelow == 5
DefaultDrop == 4
EolHalfWidth == 6
EolHalfHeight == 3
EmptyCircuitBottom == 100

SYMBOL_SIZES ==
  [FACP  |-> [width |-> 40, height |-> 20],
   Cell  |-> [width |-> 30, height |-> 15],
   Smoke |-> [width |-> 14, height |-> 14],
   Pull  |-> [width |-> 12, height |-> 12],
   EOL   |-> [width |-> 12, height |-> 6]]

\* SYMBOL_SIZES[type]?.width || 20
SymbolWidth(type) ==
  IF type \in DOMAIN SYMBOL_SIZES THEN SYMBOL_SIZES[type].width ELSE DefaultSize

\* SYMBOL_SIZES[type]?.height || 20 : the bottom-edge offset of a symbol
SymbolHeight(type) ==
  IF type \in DOMAIN SYMBOL_SIZES THEN SYMBOL_SIZES[type].height ELSE DefaultSize

\* SYMBOL_SIZES[device.type] || { width: 20, height: 20 }
SymbolSize(type) == [width |-> SymbolWidth(type), height |-> SymbolHeight(type)]

(***************************************************************************)
(* Ids.  `device-${idx}`, `eol-${idx}`, 'panel', `${circuit.id}-bus`,      *)
(* `panel-stub-${idx}`, `${circuit.id}-${idx}` and the declarative ids are *)
(* records, since TLC has no string concatenation.                         *)
(***************************************************************************)
NodeId(kind, circuit, n) == [kind |-> kind, circuit |-> circuit, n |-> n]

PanelNodeId == NodeId("panel", "", 0)
DeviceNodeId(idx) == NodeId("device", "", idx)
EolNodeId(idx) == NodeId("eol", "", idx)

EdgeId(kind, circuit, n) == [kind |-> kind, circuit |-> circuit, n |-> n]

BusEdgeId(cid) == EdgeId("bus", cid, 0)
StubEdgeId(idx) == EdgeId("panel-stub", "", idx)
HopEdgeId(cid, idx) == EdgeId("hop", cid, idx)

Node(id, x, y, size) ==
  [id |-> id, x |-> x, y |-> y, width |-> size.width, height |-> size.height]

Edge(id, source, target, bendPoints, color, circuitId) ==
  [id |-> id, source |-> source, target |-> target, bendPoints |-> bendPoints,
   color |-> color, circuitId |-> circuitId]

\* the legacy LayoutResult has no circuitId on its edges
NoCircuitId == "undefined"

(***************************************************************************)
(* elkLayout: the manual bus router that builds the result once the        *)
(* engine call has returned.                                               *)
(***************************************************************************)

\* panelX, panelY : the panel attachment point (bottom centre of the FACP)
PanelAttach(s) ==
  <<s.panel.x + SYMBOL_SIZES.FACP.width \div 2,
    s.panel.y + SYMBOL_SIZES.FACP.height>>

\* deviceX : device.x + (SYMBOL_SIZES[device.type]?.width || 20) / 2
DeviceAttachX(d) == d.x + SymbolWidth(d.type) \div 2

\* const dropLen = eol.drop || 4  (undefined and 0 are falsy)
DropLen(eol) == IF eol.hasDrop /\ eol.drop # 0 THEN eol.drop ELSE DefaultDrop

\* spec.devices.filter(d => d.circuit === id), as positions in spec.devices
CircuitDeviceIdx(devices, cid) ==
  SelectSeq(Indices(devices), LAMBDA i : devices[i].circuit = cid)

\* spec.circuits.find(c => c.id === eol.circuit) is defined
CircuitDeclared(s, cid) == \E i \in 1..Len(s.circuits) : s.circuits[i].id = cid

\* spec.eols?.find(e => e.circuit === circuit.id), as a position, 0 if none
FindEol(s, cid) ==
  IF \E i \in 1..Len(s.eols) : s.eols[i].circuit = cid
  THEN CHOOSE i \in 1..Len(s.eols) :
         /\ s.eols[i].circuit = cid
         /\ \A j \in 1..(i - 1) : s.eols[j].circuit # cid
  ELSE 0

RECURSIVE InsertByX(_, _, _)
InsertByX(sorted, i, devices) ==
  IF sorted = <<>> THEN <<i>>
  ELSE IF devices[Head(sorted)].x <= devices[i].x
       THEN <<Head(sorted)>> \o InsertByX(Tail(sorted), i, devices)
       ELSE <<i>> \o sorted

RECURSIVE SortInto(_, _, _)
SortInto(acc, rest, devices) ==
  IF rest = <<>> THEN acc
  ELSE SortInto(InsertByX(acc, Head(rest), devices), Tail(rest), devices)

\* mutant: the devices are left in declaration order
SortByXDeclarationOrder(idxs, devices) == idxs

\* .sort((a, b) => a.x - b.x) : ascending x, stable
SortByX(idxs, devices) == SortInto(<<>>, idxs, devices)

\* mutant: the highest bottom edge instead of the lowest one
LowestBottomMin(devices, idxs) ==
  SeqMin([k \in 1..Len(idxs) |->
            devices[idxs[k]].y + SymbolHeight(devices[idxs[k]].type)])

\* Math.max(...circuitDevices.map(d => d.y + (SYMBOL_SIZES[d.type]?.height || 20)))
LowestBottom(devices, idxs) ==
  SeqMax([k \in 1..Len(idxs) |->
            devices[idxs[k]].y + SymbolHeight(devices[idxs[k]].type)])

\* const busY = lowestBottom + 5
BusY(devices, idxs) == LowestBottom(devices, idxs) + ClearanceBelow

\* the points pushed for the i-th device of the sorted circuit devices
DevicePoints(devices, sorted, i, busY) ==
  LET d == devices[sorted[i]]
      deviceX == DeviceAttachX(d)
  IN (IF i > 1 THEN << <<deviceX, busY>> >> ELSE <<>>)
       \o << <<deviceX, d.y>>, <<deviceX, busY>> >>

\* mutant: the polyline goes straight from the last device to the EOL
EolPointsDirect(s, eolIdx, busY) ==
  IF eolIdx = 0 THEN <<>>
  ELSE << <<s.eols[eolIdx].x, busY + DropLen(s.eols[eolIdx])>> >>

\* the two points pushed when the circuit has an EOL
EolPoints(s, eolIdx, busY) ==
  IF eolIdx = 0 THEN <<>>
  ELSE LET eol == s.eols[eolIdx]
       IN << <<eol.x, busY>>, <<eol.x, busY + DropLen(eol)>> >>

\* busPoints of one circuit with at least one device
BusPoints(s, sorted, busY, eolIdx) ==
  LET panelAt == PanelAttach(s)
      firstDeviceX == DeviceAttachX(s.devices[sorted[1]])
  IN << panelAt, <<panelAt[1], busY>>, <<firstDeviceX, busY>> >>
       \o Flatten([i \in 1..Len(sorted) |-> DevicePoints(s.devices, sorted, i, busY)])
       \o EolPoints(s, eolIdx, busY)

\* circuitDevices of the bus routing loop: filtered, then sorted by x
SortedCircuitDevices(s, cid) ==
  SortByX(CircuitDeviceIdx(s.devices, cid), s.devices)

\* mutant: one two-point edge per device instead of the single bus edge
BusEdgesPerHop(s, circuit) ==
  LET sorted == SortedCircuitDevices(s, circuit.id)
  IN [k \in 1..Len(sorted) |->
        Edge(HopEdgeId(circuit.id, k - 1), PanelNodeId, DeviceNodeId(sorted[k] - 1),
             << PanelAttach(s),
                <<DeviceAttachX(s.devices[sorted[k]]), s.devices[sorted[k]].y>> >>,
             circuit.color, NoCircuitId)]

\* the single bus edge of one circuit; none for a circuit without devices
BusEdges(s, circuit) ==
  LET sorted == SortedCircuitDevices(s, circuit.id)
      busY == BusY(s.devices, sorted)
      eolIdx == FindEol(s, circuit.id)
  IN IF Len(sorted) = 0 THEN <<>>
     ELSE << Edge(BusEdgeId(circuit.id), PanelNodeId,
                  IF eolIdx # 0 THEN EolNodeId(eolIdx - 1)
                  ELSE DeviceNodeId(sorted[Len(sorted)] - 1),
                  BusPoints(s, sorted, busY, eolIdx),
                  circuit.color, NoCircuitId) >>

\* spec.devices.filter(d => d.circuit === 'PANEL')
DirectPanelDevices(s) == CircuitDeviceIdx(s.devices, "PANEL")

\* the three-point stub of the idx-th (0-based) PANEL device
PanelStubEdge(s, direct, k) ==
  LET d == s.devices[direct[k]]
      panelAt == PanelAttach(s)
  IN Edge(StubEdgeId(k - 1), PanelNodeId, DeviceNodeId(direct[k] - 1),
          << panelAt, <<panelAt[1], d.y>>, <<DeviceAttachX(d), d.y>> >>,
          "black", NoCircuitId)

PanelNode(s) == Node(PanelNodeId, s.panel.x, s.panel.y, SYMBOL_SIZES.FACP)

\* mutant: a device node is placed by its centre
DeviceNodesCentred(s) ==
  [i \in 1..Len(s.devices) |->
     Node(DeviceNodeId(i - 1),
          s.devices[i].x + SymbolWidth(s.devices[i].type) \div 2,
          s.devices[i].y + SymbolHeight(s.devices[i].type) \div 2,
          SymbolSize(s.devices[i].type))]

DeviceNodes(s) ==
  [i \in 1..Len(s.devices) |->
     Node(DeviceNodeId(i - 1), s.devices[i].x, s.devices[i].y,
          SymbolSize(s.devices[i].type))]

\* mutant: the EOL node is placed from the default bottom, whatever the devices
EolNodesAtDefault(s, i) ==
  IF CircuitDeclared(s, s.eols[i].circuit)
  THEN << Node(EolNodeId(i - 1), s.eols[i].x - EolHalfWidth,
               EmptyCircuitBottom + ClearanceBelow + DropLen(s.eols[i]) - EolHalfHeight,
               SYMBOL_SIZES.EOL) >>
  ELSE <<>>

\* mutant: no EOL node is set
EolNodesOmitted(s, i) == <<>>

\* the EOL node of the idx-th eol entry; none when its circuit is not declared
EolNodes(s, i) ==
  LET eol == s.eols[i]
      circuitDevices == CircuitDeviceIdx(s.devices, eol.circuit)
      lowestBottom == IF Len(circuitDevices) > 0
                      THEN LowestBottom(s.devices, circuitDevices)
                      ELSE EmptyCircuitBottom
      busY == lowestBottom + ClearanceBelow
  IN IF CircuitDeclared(s, eol.circuit)
     THEN << Node(EolNodeId(i - 1), eol.x - EolHalfWidth,
                  busY + DropLen(eol) - EolHalfHeight, SYMBOL_SIZES.EOL) >>
     ELSE <<>>

\* the result of elkLayout when the engine call returned normally
ManualBusLayout(s) ==
  LET direct == DirectPanelDevices(s)
  IN [nodes |->
        MapSetAll(MapSetAll(<<PanelNode(s)>>, DeviceNodes(s)),
                  Flatten([i \in 1..Len(s.eols) |-> EolNodes(s, i)])),
      edges |->
        MapSetAll(
          MapSetAll(<<>>, Flatten([c \in 1..Len(s.circuits) |->
                                     BusEdges(s, s.circuits[c])])),
          [k \in 1..Len(direct) |-> PanelStubEdge(s, direct, k)])]

(***************************************************************************)
(* createManualLayout: the straight-line fallback of elkLayout.            *)
(***************************************************************************)
FallbackEdges(s, circuit) ==
  LET circuitDevices == CircuitDeviceIdx(s.devices, circuit.id)
  IN [k \in 1..Len(circuitDevices) |->
        LET d == s.devices[circuitDevices[k]]
        IN Edge(HopEdgeId(circuit.id, k - 1), PanelNodeId,
                DeviceNodeId(circuitDevices[k] - 1),
                << PanelAttach(s), <<DeviceAttachX(d), d.y>> >>,
                circuit.color, NoCircuitId)]

\* mutant: the fallback routes the buses like the normal path
createManualLayoutWithBus(s) == ManualBusLayout(s)

createManualLayout(s) ==
  [nodes |-> MapSetAll(<<PanelNode(s)>>, DeviceNodes(s)),
   edges |-> MapSetAll(<<>>, Flatten([c \in 1..Len(s.circuits) |->
                                        FallbackEdges(s, s.circuits[c])]))]

(***************************************************************************)
(* compileDSLToELK: the graph handed to the engine.                        *)
(***************************************************************************)
PanelPartition == 1
WestPartition == 0
EastPartition == 2

DslPanelNodeId(s) == NodeId("panel-id", s.panel.id, 0)
DslDeviceNodeId(cid, deviceIndex) == NodeId("circuit-device", cid, deviceIndex)
DslEndcapNodeId(cid) == NodeId("circuit-endcap", cid, 0)
DslDeviceEdgeId(cid, deviceIndex) == EdgeId("edge-device", cid, deviceIndex)
DslEndcapEdgeId(cid) == EdgeId("edge-endcap", cid, 0)

\* `${panelId}.${port.id}`
PortId(panelId, port) == [panel |-> panelId, port |-> port]

\* prevPort = '' : a source port that names nothing
EmptyPort == PortId("", "")

\* dslSpec.symbols[type] || { w: 20, h: 20 }
DslSymbolSize(s, type) ==
  IF type \in DOMAIN s.symbols
  THEN [width |-> s.symbols[type].w, height |-> s.symbols[type].h]
  ELSE [width |-> DefaultSize, height |-> DefaultSize]

\* mutant: every circuit is put in the east partition
CircuitPartitionEast(circuit) == EastPartition

\* const partition = isLeftLane ? 0 : 2
CircuitPartition(circuit) ==
  IF circuit.orientation = "WEST" THEN WestPartition ELSE EastPartition

GraphNode(id, size, partition, ports) ==
  [id |-> id, width |-> size.width, height |-> size.height,
   partition |-> partition, ports |-> ports]

GraphEdge(id, source, target, hasSourcePort, sourcePort) ==
  [id |-> id, source |-> source, target |-> target,
   hasSourcePort |-> hasSourcePort, sourcePort |-> sourcePort]

DslPanelGraphNode(s) ==
  GraphNode(DslPanelNodeId(s), SYMBOL_SIZES.FACP, PanelPartition,
            [i \in 1..Len(s.panel.ports) |->
               [id |-> PortId(s.panel.id, s.panel.ports[i].id),
                side |-> s.panel.ports[i].side]])

\* the nodes one circuit pushes: its devices in declaration order, then its endcap
DslCircuitNodes(s, circuit) ==
  [k \in 1..Len(circuit.devices) |->
     GraphNode(DslDeviceNodeId(circuit.id, k - 1),
               DslSymbolSize(s, circuit.devices[k]),
               CircuitPartition(circuit), <<>>)]
  \o << GraphNode(DslEndcapNodeId(circuit.id), DslSymbolSize(s, circuit.endcap),
                  CircuitPartition(circuit), <<>>) >>

\* mutant: every edge of a circuit starts at the panel
DslPrevNodeIdStar(s, circuit, k) == DslPanelNodeId(s)

\* prevNodeId before the k-th device (1-based) of the chain, and after the last
DslPrevNodeId(s, circuit, k) ==
  IF k = 1 THEN DslPanelNodeId(s) ELSE DslDeviceNodeId(circuit.id, k - 2)

\* the edges one circuit pushes: the chain, then the hop to the endcap
DslCircuitEdges(s, circuit) ==
  [k \in 1..Len(circuit.devices) |->
     GraphEdge(DslDeviceEdgeId(circuit.id, k - 1),
               DslPrevNodeId(s, circuit, k),
               DslDeviceNodeId(circuit.id, k - 1),
               TRUE,
               IF k = 1 THEN PortId(s.panel.id, circuit.from.port) ELSE EmptyPort)]
  \o << GraphEdge(DslEndcapEdgeId(circuit.id),
                  DslPrevNodeId(s, circuit, Len(circuit.devices) + 1),
                  DslEndcapNodeId(circuit.id), FALSE, EmptyPort) >>

DslGraph(s) ==
  [children |-> <<DslPanelGraphNode(s)>>
                  \o Flatten([c \in 1..Len(s.circuits) |->
                                DslCircuitNodes(s, s.circuits[c])]),
   edges |-> Flatten([c \in 1..Len(s.circuits) |->
                        DslCircuitEdges(s, s.circuits[c])]),
   partitioning |-> TRUE]

(***************************************************************************)
(* The external layout engine.  It is opaque: an answer is one of a few    *)
(* layouted graphs it may return for the graph it was given (positions     *)
(* present or absent, edges with or without routed sections).              *)
(***************************************************************************)
LayerGap == 36
LaneGap == 28
EnginePanelX == 5 * LayerGap

\* no sections; one straight section; one section with two bends; two
\* sections that meet in a repeated point; one section without start point
EngineRoutings == {"none", "direct", "bent", "split", "open"}

\* every routing with positions set, and an answer that sets nothing
EngineAnswers ==
  {[placed |-> TRUE, routing |-> r] : r \in EngineRoutings}
    \cup {[placed |-> FALSE, routing |-> "none"]}

GraphNodeAt(graph, id) ==
  graph.children[CHOOSE i \in 1..Len(graph.children) : graph.children[i].id = id]

RECURSIVE Depth(_, _)
Depth(graph, id) ==
  IF \E i \in 1..Len(graph.edges) : graph.edges[i].target = id
  THEN 1 + Depth(graph,
                 graph.edges[CHOOSE i \in 1..Len(graph.edges) :
                               graph.edges[i].target = id].source)
  ELSE 0

PlacedX(graph, n) ==
  EnginePanelX + (n.partition - PanelPartition) * Depth(graph, n.id) * LayerGap

PlacedY(graph, n) ==
  LaneGap * ((CHOOSE i \in 1..Len(graph.children) : graph.children[i].id = n.id) - 1)

Centre(graph, id) ==
  LET n == GraphNodeAt(graph, id)
  IN <<PlacedX(graph, n) + n.width \div 2, PlacedY(graph, n) + n.height \div 2>>

Section(start, bends, end) ==
  [hasStart |-> TRUE, startPoint |-> start, bendPoints |-> bends,
   hasEnd |-> TRUE, endPoint |-> end]

OpenSection(bends, end) ==
  [hasStart |-> FALSE, startPoint |-> <<0, 0>>, bendPoints |-> bends,
   hasEnd |-> TRUE, endPoint |-> end]

RoutedSections(graph, e, routing) ==
  LET a == Centre(graph, e.source)
      b == Centre(graph, e.target)
      mid == (a[1] + b[1]) \div 2
  IN CASE routing = "none" -> <<>>
       [] routing = "direct" -> << Section(a, <<>>, b) >>
       [] routing = "bent" -> << Section(a, << <<mid, a[2]>>, <<mid, b[2]>> >>, b) >>
       [] routing = "split" ->
            << Section(a, << <<mid, a[2]>> >>, <<mid, b[2]>>),
               Section(<<mid, b[2]>>, << <<mid, b[2]>> >>, b) >>
       [] OTHER -> << OpenSection(<< <<mid, a[2]>>, <<mid, b[2]>> >>, b) >>

LayoutedGraph(graph, answer) ==
  [children |->
     [i \in 1..Len(graph.children) |->
        LET n == graph.children[i]
        IN [id |-> n.id, hasXY |-> answer.placed,
            x |-> IF answer.placed THEN PlacedX(graph, n) ELSE 0,
            y |-> IF answer.placed THEN PlacedY(graph, n) ELSE 0,
            width |-> n.width, height |-> n.height]],
   edges |->
     [i \in 1..Len(graph.edges) |->
        LET e == graph.edges[i]
        IN [id |-> e.id, source |-> e.source, target |-> e.target,
            sections |-> RoutedSections(graph, e, answer.routing)]]]

(***************************************************************************)
(* compileDSLToELK: the result extracted from the layouted graph.          *)
(***************************************************************************)

\* x: node.x || 0, y: node.y || 0, width: node.width || 20, height: ... || 20
ExtractNode(n) ==
  [id |-> n.id,
   x |-> IF n.hasXY THEN n.x ELSE 0,
   y |-> IF n.hasXY THEN n.y ELSE 0,
   width |-> IF n.width # 0 THEN n.width ELSE DefaultSize,
   height |-> IF n.height # 0 THEN n.height ELSE DefaultSize]

\* mutant: an interior bend point equal to the start point is dropped
SectionPointsNoDuplicates(sec) ==
  (IF sec.hasStart THEN <<sec.startPoint>> ELSE <<>>)
    \o SelectSeq(sec.bendPoints, LAMBDA p : ~(sec.hasStart /\ p = sec.startPoint))
    \o (IF sec.hasEnd THEN <<sec.endPoint>> ELSE <<>>)

\* start point, interior bend points, end point of one section
SectionPoints(sec) ==
  (IF sec.hasStart THEN <<sec.startPoint>> ELSE <<>>)
    \o sec.bendPoints
    \o (IF sec.hasEnd THEN <<sec.endPoint>> ELSE <<>>)

ExtractBendPoints(e) ==
  Flatten([k \in 1..Len(e.sections) |-> SectionPoints(e.sections[k])])

\* edge.id.includes('SLC') / edge.id.includes('NAC'), by the circuit id in the
\* edge id (the other parts of an edge id hold neither substring)
IdsWithSLC == {"SLC"}
IdsWithNAC == {"NAC1"}

EdgeCircuitId(edgeId) ==
  IF edgeId.circuit \in IdsWithSLC THEN "SLC"
  ELSE IF edgeId.circuit \in IdsWithNAC THEN "NAC"
  ELSE "unknown"

ExtractEdge(e) ==
  Edge(e.id, e.source, e.target, ExtractBendPoints(e), "black", EdgeCircuitId(e.id))

DslResult(layouted) ==
  [nodes |-> MapSetAll(<<>>, [i \in 1..Len(layouted.children) |->
                                ExtractNode(layouted.children[i])]),
   edges |-> MapSetAll(<<>>, [i \in 1..Len(layouted.edges) |->
                                ExtractEdge(layouted.edges[i])])]

\* mutant: only panel.ports is looked at
isDSLSpecPortsOnly(s) == s.hasPanel /\ s.panel.hasPorts

\* isDSLSpec: panel.ports is an array and circuits[0].from names a panel and a port
isDSLSpec(s) ==
  /\ s.hasPanel /\ s.panel.hasPorts
  /\ Len(s.circuits) > 0
  /\ s.circuits[1].hasFrom
  /\ s.circuits[1].from.panel # ""
  /\ s.circuits[1].from.port # ""

(***************************************************************************)
(* Input specs.  Both shapes are one record: a legacy spec has no ports    *)
(* and no circuit.from, a declarative spec has no devices and no eols      *)
(* (hasDevices is FALSE: spec.devices is undefined).                       *)
(***************************************************************************)
NoFrom == [panel |-> "", port |-> ""]

LegacyCircuit(id, color) ==
  [id |-> id, color |-> color, hasFrom |-> FALSE, from |-> NoFrom,
   orientation |-> "", devices |-> <<>>, endcap |-> ""]

DslCircuit(id, port, orientation, devices) ==
  [id |-> id, color |-> "", hasFrom |-> TRUE,
   from |-> [panel |-> "FACP", port |-> port],
   orientation |-> orientation, devices |-> devices, endcap |-> "EOL"]

Device(type, circuit, x, y) == [type |-> type, circuit |-> circuit, x |-> x, y |-> y]

Eol(circuit, x) == [circuit |-> circuit, x |-> x, hasDrop |-> FALSE, drop |-> 0]

EolDrop(circuit, x, drop) ==
  [circuit |-> circuit, x |-> x, hasDrop |-> TRUE, drop |-> drop]

LegacyPanel == [x |-> 100, y |-> 40, id |-> "", hasPorts |-> FALSE, ports |-> <<>>]

DslPanel ==
  [x |-> 0, y |-> 0, id |-> "FACP", hasPorts |-> TRUE,
   ports |-> << [id |-> "SLC", side |-> "WEST"], [id |-> "NAC1", side |-> "EAST"] >>]

DslSymbols ==
  [Smoke |-> [w |-> 18, h |-> 18], Pull |-> [w |-> 14, h |-> 14],
   HornStrobe |-> [w |-> 22, h |-> 16], EOL |-> [w |-> 18, h |-> 12]]

LegacySpec(circuits, devices, eols) ==
  [hasPanel |-> TRUE, panel |-> LegacyPanel, circuits |-> circuits,
   hasDevices |-> TRUE, devices |-> devices, eols |-> eols, symbols |-> <<>>]

DslSpec(circuits) ==
  [hasPanel |-> TRUE, panel |-> DslPanel, circuits |-> circuits,
   hasDevices |-> FALSE, devices |-> <<>>, eols |-> <<>>, symbols |-> DslSymbols]

SlcCircuit == LegacyCircuit("SLC", "red")
NacCircuit == LegacyCircuit("NAC1", "blue")
PanelNamedCircuit == LegacyCircuit("PANEL", "green")

CircuitLists ==
  { <<SlcCircuit>>, <<SlcCircuit, NacCircuit>>, <<SlcCircuit, PanelNamedCircuit>> }

DeviceChoices ==
  { Device("Smoke", "SLC", 30, 100),
    Device("Pull", "SLC", 60, 100),
    Device("Pull", "SLC", 30, 120),
    Device("HornStrobe", "NAC1", 150, 110),
    Device("Cell", "PANEL", 80, 10) }

EolChoices ==
  { Eol("SLC", 60),
    EolDrop("SLC", 80, 7),
    EolDrop("SLC", 60, 0),
    EolDrop("SLC", 60, -3),
    Eol("NAC1", 170) }

\* the starter spec of the editor: no panel entry
NoPanelSpec ==
  [hasPanel |-> FALSE, panel |-> LegacyPanel,
   circuits |-> <<SlcCircuit, NacCircuit>>,
   hasDevices |-> TRUE, devices |-> << Device("Smoke", "SLC", 30, 100) >>,
   eols |-> << Eol("SLC", 60) >>, symbols |-> <<>>]

\* no entry, one entry, or two entries naming the same circuit
EolLists ==
  { <<>> } \cup { <<e>> : e \in EolChoices }
    \cup { << Eol("SLC", 60), EolDrop("SLC", 80, 7) >> }

LegacySpecs ==
  { LegacySpec(cs, ds, es) :
      cs \in CircuitLists,
      ds \in SeqsUpTo(DeviceChoices, MaxDevices),
      es \in EolLists }
  \cup {NoPanelSpec}

DslDeviceLists == SeqsUpTo({"Smoke", "HornStrobe"}, MaxDslDevices)

WestCircuits ==
  { DslCircuit("SLC", port, "WEST", ds) : port \in {"SLC", "AUX"}, ds \in DslDeviceLists }

EastCircuits ==
  { DslCircuit("NAC1", port, "EAST", ds) : port \in {"NAC1", "AUX"}, ds \in DslDeviceLists }

DslCircuitLists ==
  { <<w>> : w \in WestCircuits } \cup { <<e>> : e \in EastCircuits }
    \cup { <<w, e>> : w \in WestCircuits, e \in EastCircuits }

\* declarative specs that isDSLSpec does not recognise: no circuit at all, a
\* first circuit whose from names no port, a first circuit without from
UnrecognisedDslSpecs ==
  { DslSpec(<<>>),
    DslSpec(<< DslCircuit("SLC", "", "WEST", <<"Smoke">>) >>),
    DslSpec(<< [DslCircuit("SLC", "SLC", "WEST", <<"Smoke">>)
                  EXCEPT !.hasFrom = FALSE, !.from = NoFrom],
               DslCircuit("NAC1", "NAC1", "EAST", <<"HornStrobe">>) >>) }

DslSpecs == { DslSpec(cs) : cs \in DslCircuitLists } \cup UnrecognisedDslSpecs

(***************************************************************************)
(* layout(spec): one compile, and the same spec object compiled again.     *)
(***************************************************************************)
NoResult == [nodes |-> <<>>, edges |-> <<>>]

NoCompile == [pc |-> "none", engine |-> "idle", result |-> NoResult]

NoData == [present |-> FALSE, gen |-> 0, data |-> NoResult]

NoError == [present |-> FALSE, gen |-> 0]

\* mutant: spec.devices itself is sorted by x
SpecAfterRoutingInPlace(s) ==
  [s EXCEPT !.devices =
     LET order == SortByX(Indices(s.devices), s.devices)
     IN [k \in 1..Len(order) |-> s.devices[order[k]]]]

\* the spec after the bus routing loop: filter() returns a new array, so
\* sort() reorders that copy and spec.devices keeps its order
SpecAfterRouting(s) == s

Init ==
  /\ spec \in LegacySpecs \cup DslSpecs
  /\ pc = "start"
  /\ compiler = "none"
  /\ engine = "idle"
  /\ result = NoResult
  /\ first = NoCompile
  /\ again = FALSE
  /\ pending = {}
  /\ gen = 0
  /\ layoutData = NoData
  /\ error = NoError

appVars == <<pending, gen, layoutData, error>>

\* spec.panel.x and spec.devices.forEach can be evaluated without a TypeError
ElkLayoutReadable(s) == s.hasPanel /\ s.hasDevices

\* layout() takes the legacy branch: elkLayout up to the engine call
StartLegacy ==
  /\ pc = "start"
  /\ ~isDSLSpec(spec)
  /\ compiler' = "elkLayout"
  /\ pc' = IF ElkLayoutReadable(spec) THEN "await" ELSE "rejected"
  /\ engine' = IF ElkLayoutReadable(spec) THEN "pending" ELSE "idle"
  /\ UNCHANGED <<spec, result, first, again, appVars>>

\* layout() takes the declarative branch: compileDSLToELK up to the engine call
StartDsl ==
  /\ pc = "start"
  /\ isDSLSpec(spec)
  /\ compiler' = "compileDSLToELK"
  /\ pc' = "await"
  /\ engine' = "pending"
  /\ UNCHANGED <<spec, result, first, again, appVars>>

\* elk.layout(graph) resolves: the rest of the compile runs
EngineResolves ==
  /\ pc = "await"
  /\ \E answer \in EngineAnswers :
       result' = IF isDSLSpec(spec)
                 THEN DslResult(LayoutedGraph(DslGraph(spec), answer))
                 ELSE ManualBusLayout(spec)
  /\ spec' = IF isDSLSpec(spec) THEN spec ELSE SpecAfterRouting(spec)
  /\ pc' = "resolved"
  /\ engine' = "ok"
  /\ UNCHANGED <<compiler, first, again, appVars>>

\* elk.layout(graph) rejects: elkLayout falls back, compileDSLToELK rethrows
EngineRejects ==
  /\ pc = "await"
  /\ engine' = "failed"
  /\ IF isDSLSpec(spec)
     THEN pc' = "rejected" /\ result' = NoResult
     ELSE pc' = "resolved" /\ result' = createManualLayout(spec)
  /\ UNCHANGED <<spec, compiler, first, again, appVars>>

\* the caller compiles the same spec object a second time
Recompile ==
  /\ pc \in {"resolved", "rejected"}
  /\ ~again
  /\ first' = [pc |-> pc, engine |-> engine, result |-> result]
  /\ again' = TRUE
  /\ pc' = "start"
  /\ compiler' = "none"
  /\ engine' = "idle"
  /\ result' = NoResult
  /\ UNCHANGED <<spec, appVars>>

Next == StartLegacy \/ StartDsl \/ EngineResolves \/ EngineRejects \/ Recompile

Spec == Init /\ [][Next]_vars

(***************************************************************************)
(* Riser: the layout effect of the view.  Every run of the effect clears   *)
(* error and layoutData and starts elkLayout(spec); the promise's then and *)
(* catch callbacks run whenever it settles.  The field gen of a promise,   *)
(* of layoutData and of error records which run of the effect it came      *)
(* from; the code keeps no such tag.                                       *)
(***************************************************************************)
AppSpecs ==
  { LegacySpec(<<SlcCircuit>>,
               << Device("Smoke", "SLC", 30, 100), Device("Pull", "SLC", 60, 100) >>,
               << Eol("SLC", 60) >>),
    LegacySpec(<<SlcCircuit, NacCircuit>>,
               << Device("Smoke", "SLC", 30, 100),
                  Device("HornStrobe", "NAC1", 150, 110) >>,
               << Eol("NAC1", 170) >>),
    NoPanelSpec }

\* what elkLayout(s) can resolve with
ElkLayoutResults(s) == {ManualBusLayout(s), createManualLayout(s)}

InitApp ==
  /\ spec \in AppSpecs
  /\ pc = "start"
  /\ compiler = "none"
  /\ engine = "idle"
  /\ result = NoResult
  /\ first = NoCompile
  /\ again = FALSE
  /\ pending = {}
  /\ gen = 0
  /\ layoutData = NoData
  /\ error = NoError

compileVars == <<pc, compiler, engine, result, first, again>>

\* the effect runs: on mount with the initial spec, then on every new spec
RunEffect ==
  /\ gen < MaxChanges
  /\ \E s \in AppSpecs :
       /\ gen = 0 => s = spec
       /\ spec' = s
       /\ pending' = pending \cup {[gen |-> gen + 1, spec |-> s]}
  /\ gen' = gen + 1
  /\ error' = NoError
  /\ layoutData' = NoData
  /\ UNCHANGED compileVars

\* .then((data) => { setLayoutData(data); setError(null); })
LayoutResolved ==
  \E p \in pending :
    /\ p.spec.hasPanel
    /\ \E data \in ElkLayoutResults(p.spec) :
         layoutData' = [present |-> TRUE, gen |-> p.gen, data |-> data]
    /\ error' = NoError
    /\ pending' = pending \ {p}
    /\ UNCHANGED <<spec, gen, compileVars>>

\* mutant: the catch callback sets the error and keeps the geometry
LayoutRejectedKeepsData ==
  \E p \in pending :
    /\ ~p.spec.hasPanel
    /\ error' = [present |-> TRUE, gen |-> p.gen]
    /\ pending' = pending \ {p}
    /\ UNCHANGED <<layoutData, spec, gen, compileVars>>

\* mutant: the rejection is dropped, no catch callback
LayoutRejectedSilently ==
  \E p \in pending :
    /\ ~p.spec.hasPanel
    /\ pending' = pending \ {p}
    /\ UNCHANGED <<error, layoutData, spec, gen, compileVars>>

\* .catch((error) => { setError(...); setLayoutData(null); })
LayoutRejected ==
  \E p \in pending :
    /\ ~p.spec.hasPanel
    /\ error' = [present |-> TRUE, gen |-> p.gen]
    /\ layoutData' = NoData
    /\ pending' = pending \ {p}
    /\ UNCHANGED <<spec, gen, compileVars>>

NextApp == RunEffect \/ LayoutResolved \/ LayoutRejected

SpecApp == InitApp /\ [][NextApp]_vars

(***************************************************************************)
(* Properties.                                                             *)
(***************************************************************************)
SetMax(S) == CHOOSE m \in S : \A v \in S : v <= m

\* the compile ran elkLayout and the engine call returned normally
LegacyRouted == pc = "resolved" /\ engine = "ok" /\ ~isDSLSpec(spec)

\* positions in spec.devices of the devices of a circuit
Members(s, cid) == {i \in 1..Len(s.devices) : s.devices[i].circuit = cid}

\* the circuits of a spec that have at least one device, in either shape
HasDevices(s, c) ==
  IF isDSLSpec(s) THEN Len(s.circuits[c].devices) > 0
  ELSE Members(s, s.circuits[c].id) # {}

HasEdge(res, id) == id \in {res.edges[i].id : i \in 1..Len(res.edges)}

BusPolyline(res, cid) == MapGet(res.edges, BusEdgeId(cid)).bendPoints

\* the elevation of the horizontal run of a bus polyline
BusElevation(res, cid) == BusPolyline(res, cid)[2][2]

\* the spec with its devices declared in another order
Permuted(s, perm) ==
  [s EXCEPT !.devices = [k \in 1..Len(s.devices) |-> s.devices[perm[k]]]]

\* C1: whenever the engine call raises an error the compile still resolves,
\* with a non-empty geometry holding at least one path for every circuit that
\* has a device; no rejection reaches the caller.
C1_EngineFailureNeverReachesCaller ==
  engine = "failed" =>
    /\ pc = "resolved"
    /\ Len(result.nodes) > 0
    /\ \A c \in 1..Len(spec.circuits) :
         HasDevices(spec, c) =>
           \E i \in 1..Len(result.edges) :
             result.edges[i].id.circuit = spec.circuits[c].id

\* the part of C1 that the legacy layout keeps: its fallback is reached
C1_LegacyFallbackReached ==
  /\ engine = "failed" /\ ~isDSLSpec(spec) /\ pc = "resolved"
  /\ Len(result.edges) >= 2

\* the promise of the latest compile settles: it leaves the pending promises,
\* which only its then callback or its catch callback does
LatestSettles == \E p \in pending : p.gen = gen /\ pending' = pending \ {p}

\* Riser under the assumption that the promise of the latest compile
\* eventually settles (elkLayout is an async function that awaits one
\* engine call, then returns or throws)
SpecAppFair == InitApp /\ [][NextApp]_vars /\ WF_pending(LatestSettles)

\* C2: the displayed geometry and the displayed error are those of the most
\* recently requested compile, in every interleaving of completions.
C2_LatestCompileWins ==
  /\ layoutData.present =>
       layoutData.gen = gen /\ layoutData.data \in ElkLayoutResults(spec)
  /\ error.present => error.gen = gen /\ ~spec.hasPanel

\* C3: the bus elevation of every circuit with a device is the largest
\* device.y + bottomOffset(device.type) of the circuit plus 5, and it is the
\* same for every permutation of the declaration order; Smoke and Pull at
\* y = 100 give 119.
C3_BusElevation ==
  LegacyRouted =>
    \A c \in 1..Len(spec.circuits) :
      LET cid == spec.circuits[c].id
          members == Members(spec, cid)
      IN members # {} =>
           /\ HasEdge(result, BusEdgeId(cid))
           /\ BusElevation(result, cid) =
                SetMax({spec.devices[i].y + SymbolHeight(spec.devices[i].type) :
                          i \in members}) + 5
           /\ \A perm \in Permutations(1..Len(spec.devices)) :
                BusEdges(Permuted(spec, perm), spec.circuits[c])[1].bendPoints[2][2]
                  = BusElevation(result, cid)
           /\ ({[type |-> spec.devices[i].type, y |-> spec.devices[i].y] : i \in members}
                 = {[type |-> "Smoke", y |-> 100], [type |-> "Pull", y |-> 100]}
               => BusElevation(result, cid) = 119)

\* C3 witness: Pull declared before Smoke, both at y = 100, bus drawn at 119
C3_Witness ==
  /\ LegacyRouted
  /\ spec.devices = << Device("Pull", "SLC", 60, 100), Device("Smoke", "SLC", 30, 100) >>
  /\ BusElevation(result, "SLC") = 119

\* the point where a bus polyline reaches a device
DeviceAttach(d) == <<DeviceAttachX(d), d.y>>

\* the k-th drop of a bus polyline: after the three leading points every
\* device takes three points, the drop being the first of the first device
\* and the second of the others
DropPoint(pts, k) == pts[3 * k + 1]

\* the orders in which a bus polyline can be read as visiting the devices of
\* its circuit
VisitOrders(s, cid, pts) ==
  LET members == Members(s, cid)
      n == Cardinality(members)
  IN {o \in [1..n -> members] :
        /\ \A k, l \in 1..n : o[k] = o[l] => k = l
        /\ \A k \in 1..n : DropPoint(pts, k) = DeviceAttach(s.devices[o[k]])}

\* C4 as claimed: the devices of every circuit are visited in strictly
\* increasing x-order.
C4_StrictlyIncreasingX ==
  LegacyRouted =>
    \A c \in 1..Len(spec.circuits) :
      LET cid == spec.circuits[c].id
      IN Members(spec, cid) # {} =>
           LET orders == VisitOrders(spec, cid, BusPolyline(result, cid))
           IN /\ orders # {}
              /\ \A o \in orders : \A k \in 1..(Len(o) - 1) :
                   spec.devices[o[k]].x < spec.devices[o[k + 1]].x

\* C4 as amended: the devices of every circuit are visited in non-decreasing
\* x-order, devices with the same x in declaration order, whatever the
\* declaration order of the devices.
C4_NonDecreasingX ==
  LegacyRouted =>
    \A c \in 1..Len(spec.circuits) :
      LET cid == spec.circuits[c].id
      IN Members(spec, cid) # {} =>
           LET orders == VisitOrders(spec, cid, BusPolyline(result, cid))
           IN /\ \A o \in orders : \A k \in 1..(Len(o) - 1) :
                   spec.devices[o[k]].x <= spec.devices[o[k + 1]].x
              /\ \E o \in orders : \A k \in 1..(Len(o) - 1) :
                   \/ spec.devices[o[k]].x < spec.devices[o[k + 1]].x
                   \/ /\ spec.devices[o[k]].x = spec.devices[o[k + 1]].x
                      /\ o[k] < o[k + 1]

\* C4 witness: three devices declared right to left, two of them at x = 30
C4_Witness ==
  /\ LegacyRouted
  /\ spec.devices = << Device("Pull", "SLC", 60, 100), Device("Pull", "SLC", 30, 120),
                       Device("Smoke", "SLC", 30, 100) >>
  /\ DropPoint(BusPolyline(result, "SLC"), 1) = <<36, 120>>
  /\ DropPoint(BusPolyline(result, "SLC"), 2) = <<37, 100>>
  /\ DropPoint(BusPolyline(result, "SLC"), 3) = <<66, 100>>

\* the circuit a node of the result was created for
NodeCircuit(s, id) ==
  CASE id.kind = "device" -> s.devices[id.n + 1].circuit
    [] id.kind = "eol" -> s.eols[id.n + 1].circuit
    [] id.kind \in {"circuit-device", "circuit-endcap"} -> id.circuit
    [] OTHER -> ""

\* C5: a circuit with no device contributes no node and no path to the
\* result, even when an EOL entry or an endcap names it.
C5_EmptyCircuitNoGeometry ==
  pc = "resolved" =>
    \A c \in 1..Len(spec.circuits) :
      ~HasDevices(spec, c) =>
        /\ \A i \in 1..Len(result.nodes) :
             NodeCircuit(spec, result.nodes[i].id) # spec.circuits[c].id
        /\ \A i \in 1..Len(result.edges) :
             result.edges[i].id.circuit # spec.circuits[c].id

\* C6: a device of circuit "PANEL" has no drop in any bus polyline and is the
\* target of exactly one path, its three-point stub.
C6_PanelDevicesOnlyStub ==
  LegacyRouted =>
    \A i \in Members(spec, "PANEL") :
      LET d == spec.devices[i]
          panelAt == PanelAttach(spec)
          paths == {e \in 1..Len(result.edges) :
                      result.edges[e].target = DeviceNodeId(i - 1)}
      IN /\ \A e \in 1..Len(result.edges) :
              result.edges[e].id.kind = "bus" =>
                \A k \in 1..Len(result.edges[e].bendPoints) :
                  result.edges[e].bendPoints[k] # DeviceAttach(d)
         /\ Cardinality(paths) = 1
         /\ \A e \in paths :
              result.edges[e].bendPoints
                = << panelAt, <<panelAt[1], d.y>>, DeviceAttach(d) >>

\* the last two points of a polyline
LastSegment(pts) == <<pts[Len(pts) - 1], pts[Len(pts)]>>

\* C7: an EOL entry without drop gets a drop of 4, and the last segment of
\* the bus polyline leaves the bus line vertically with a length equal to the
\* drop length (the one specified, or the default).
C7_DropSegmentLength ==
  LegacyRouted =>
    \A c \in 1..Len(spec.circuits) :
      LET cid == spec.circuits[c].id
          eolIdx == FindEol(spec, cid)
      IN (Members(spec, cid) # {} /\ eolIdx # 0) =>
           LET eol == spec.eols[eolIdx]
               seg == LastSegment(BusPolyline(result, cid))
               dropLength == IF eol.hasDrop /\ eol.drop # 0 THEN eol.drop ELSE 4
           IN /\ seg[1][1] = seg[2][1]
              /\ seg[1][2] = BusElevation(result, cid)
              /\ Abs(seg[2][2] - seg[1][2]) = dropLength
              /\ ~eol.hasDrop => seg[2][2] - seg[1][2] = 4

\* C8: the drop the router uses is never negative, and it is 4 whenever the
\* entry gives no drop or a falsy one.
C8_DropNeverNegative ==
  LegacyRouted =>
    \A c \in 1..Len(spec.circuits) :
      LET cid == spec.circuits[c].id
          eolIdx == FindEol(spec, cid)
      IN (Members(spec, cid) # {} /\ eolIdx # 0) =>
           LET eol == spec.eols[eolIdx]
               seg == LastSegment(BusPolyline(result, cid))
               used == seg[2][2] - seg[1][2]
           IN /\ used >= 0
              /\ (~eol.hasDrop \/ eol.drop = 0) => used = 4

DslCompiled == isDSLSpec(spec) /\ pc \in {"await", "resolved", "rejected"}

\* the ids of the device nodes and of the endcap node of a declarative circuit
DslCircuitNodeIds(circuit) ==
  {DslDeviceNodeId(circuit.id, k - 1) : k \in 1..Len(circuit.devices)}
    \cup {DslEndcapNodeId(circuit.id)}

\* C11: in the graph handed to the engine every device node and endcap node
\* of a WEST circuit has a partition index below the panel's, every one of an
\* EAST circuit an index above it (0 < 1 < 2), and partitioning is activated.
C11_PartitionsAroundPanel ==
  DslCompiled =>
    LET graph == DslGraph(spec)
        panelPartition == GraphNodeAt(graph, DslPanelNodeId(spec)).partition
    IN /\ graph.partitioning
       /\ panelPartition = 1
       /\ \A c \in 1..Len(spec.circuits) :
            \A id \in DslCircuitNodeIds(spec.circuits[c]) :
              /\ \E i \in 1..Len(graph.children) : graph.children[i].id = id
              /\ spec.circuits[c].orientation = "WEST" =>
                   /\ GraphNodeAt(graph, id).partition = 0
                   /\ GraphNodeAt(graph, id).partition < panelPartition
              /\ spec.circuits[c].orientation = "EAST" =>
                   /\ GraphNodeAt(graph, id).partition = 2
                   /\ GraphNodeAt(graph, id).partition > panelPartition

\* C11 witness: the engine holds a graph with a populated WEST circuit and a
\* populated EAST circuit
C11_Witness ==
  /\ DslCompiled /\ pc = "await"
  /\ \E c, d \in 1..Len(spec.circuits) :
       /\ spec.circuits[c].orientation = "WEST" /\ Len(spec.circuits[c].devices) = 2
       /\ spec.circuits[d].orientation = "EAST" /\ Len(spec.circuits[d].devices) = 2
  /\ Len(DslGraph(spec).children) = 7

\* the edges of the graph that belong to a circuit, in the order pushed
DslEdgesOf(edges, cid) == SelectSeq(edges, LAMBDA e : e.id.circuit = cid)

\* the edges form the series Panel -> Device1 -> ... -> DeviceN -> endcap
IsSeriesChain(s, circuit, edges) ==
  LET n == Len(circuit.devices)
  IN /\ Len(edges) = n + 1
     /\ edges[1].source = DslPanelNodeId(s)
     /\ \A k \in 1..n :
          /\ edges[k].id = DslDeviceEdgeId(circuit.id, k - 1)
          /\ edges[k].target = DslDeviceNodeId(circuit.id, k - 1)
          /\ edges[k + 1].source = DslDeviceNodeId(circuit.id, k - 1)
     /\ edges[n + 1].id = DslEndcapEdgeId(circuit.id)
     /\ edges[n + 1].target = DslEndcapNodeId(circuit.id)

\* C12: a declarative circuit with n >= 1 devices yields exactly the edges
\* Panel->Device1, Device1->Device2, ..., DeviceN->endcap in declaration
\* order, in the graph handed to the engine and in the result extracted from
\* the engine's answer; never a star from the panel.
C12_SeriesChain ==
  DslCompiled =>
    \A c \in 1..Len(spec.circuits) :
      LET circuit == spec.circuits[c]
      IN Len(circuit.devices) >= 1 =>
           /\ IsSeriesChain(spec, circuit, DslEdgesOf(DslGraph(spec).edges, circuit.id))
           /\ pc = "resolved" =>
                IsSeriesChain(spec, circuit, DslEdgesOf(result.edges, circuit.id))

\* C12 witness: a resolved compile of a circuit with two devices, whose
\* second edge leaves the first device
C12_Witness ==
  /\ DslCompiled /\ pc = "resolved"
  /\ Len(spec.circuits[1].devices) = 2
  /\ LET edges == DslEdgesOf(result.edges, spec.circuits[1].id)
     IN /\ Len(edges) = 3
        /\ edges[2].source = DslDeviceNodeId(spec.circuits[1].id, 0)
        /\ edges[3].source = DslDeviceNodeId(spec.circuits[1].id, 1)

\* the points the engine supplied for an edge, section after section
RECURSIVE PointsInOrder(_)
PointsInOrder(sections) ==
  IF sections = <<>> THEN <<>>
  ELSE LET sec == Head(sections)
       IN (IF sec.hasStart THEN <<sec.startPoint>> ELSE <<>>)
            \o sec.bendPoints
            \o (IF sec.hasEnd THEN <<sec.endPoint>> ELSE <<>>)
            \o PointsInOrder(Tail(sections))

\* the number of points the engine supplied for an edge
RECURSIVE PointsSupplied(_)
PointsSupplied(sections) ==
  IF sections = <<>> THEN 0
  ELSE LET sec == Head(sections)
       IN (IF sec.hasStart THEN 1 ELSE 0) + Len(sec.bendPoints)
            + (IF sec.hasEnd THEN 1 ELSE 0) + PointsSupplied(Tail(sections))

\* C13: for every edge the engine returned, the extracted bend-point list is,
\* section by section, the start point, the interior bend points in order and
\* the end point; nothing is reordered or removed (repeated points stay) and
\* the list is as long as the number of points supplied.
C13_BendPointsVerbatim ==
  (DslCompiled /\ pc = "resolved") =>
    \E answer \in EngineAnswers :
      LET layouted == LayoutedGraph(DslGraph(spec), answer)
      IN /\ result = DslResult(layouted)
         /\ Len(result.edges) = Len(layouted.edges)
         /\ \A i \in 1..Len(layouted.edges) :
              /\ result.edges[i].id = layouted.edges[i].id
              /\ result.edges[i].bendPoints = PointsInOrder(layouted.edges[i].sections)
              /\ Len(result.edges[i].bendPoints)
                   = PointsSupplied(layouted.edges[i].sections)

\* C13 witness: an edge extracted from two sections that meet in a point
\* supplied three times in a row
C13_Witness ==
  /\ DslCompiled /\ pc = "resolved"
  /\ \E i \in 1..Len(result.edges) :
       LET pts == result.edges[i].bendPoints
       IN /\ Len(pts) = 6
          /\ pts[3] = pts[4] /\ pts[4] = pts[5]
          /\ pts[1] # pts[6]

\* the port ids declared on the panel
DeclaredPorts(s) == {s.panel.ports[i].id : i \in 1..Len(s.panel.ports)}

\* some circuit's from.port names a port that panel.ports does not declare
MissingPort(s) ==
  \E c \in 1..Len(s.circuits) :
    s.circuits[c].hasFrom /\ s.circuits[c].from.port \notin DeclaredPorts(s)

\* C14: a declarative compile of a spec in which a circuit's from.port is not
\* declared in panel.ports never resolves and produces no geometry.
C14_MissingPortFails ==
  (compiler = "compileDSLToELK" /\ MissingPort(spec)) =>
    /\ pc # "resolved"
    /\ result = NoResult

\* the shape test in the claim's words: panel.ports and circuits[0].from exist
HasPortsAndFrom(s) ==
  /\ s.hasPanel /\ s.panel.hasPorts
  /\ Len(s.circuits) > 0
  /\ s.circuits[1].hasFrom

\* C15 as claimed: layout() runs the declarative compiler exactly when the
\* spec has panel.ports and circuits[0].from, and the legacy layout otherwise.
C15_DispatchByPortsAndFrom ==
  compiler # "none" =>
    /\ compiler = "compileDSLToELK" <=> HasPortsAndFrom(spec)
    /\ compiler = "elkLayout" <=> ~HasPortsAndFrom(spec)

\* C15 as amended: layout() runs the declarative compiler exactly when the
\* spec has panel.ports, at least one circuit, and a circuits[0].from whose
\* panel and port are both non-empty; it runs the legacy layout otherwise.
C15_DispatchByNamedPortsAndFrom ==
  compiler # "none" =>
    LET named == /\ HasPortsAndFrom(spec)
                 /\ spec.circuits[1].from.panel # ""
                 /\ spec.circuits[1].from.port # ""
    IN /\ compiler = "compileDSLToELK" <=> named
       /\ compiler = "elkLayout" <=> ~named

\* C15 witness: a spec with panel.ports whose first circuit's from names no
\* port was handed to the legacy layout, which rejected it
C15_Witness ==
  /\ compiler = "elkLayout" /\ pc = "rejected"
  /\ HasPortsAndFrom(spec)
  /\ spec.circuits[1].from.port = ""

(***************************************************************************)
(* Riser: what the view renders from layoutData.                           *)
(***************************************************************************)

\* the keys of SYMBOLS
SymbolKeys == {"FACP", "Cell", "Smoke", "Pull", "EOL", "HornStrobe"}

\* the branch of the render: the error line, the loading line or the diagram
View ==
  IF error.present THEN "error"
  ELSE IF ~layoutData.present THEN "loading"
  ELSE "diagram"

\* layoutData.nodes.get(id) is defined
HasNode(data, id) == \E i \in 1..Len(data.nodes) : data.nodes[i].id = id

\* `eol-${circuit.id}`, the key the view looks an EOL node up by.  elkLayout
\* stores EOL nodes under `eol-${idx}`; the two strings are equal only for a
\* circuit whose id is the decimal index, which no circuit id here is.
EolRenderKey(cid) == NodeId("eol", cid, 0)

\* the nodes of layoutData that the view draws a symbol for
RenderedNodes(s, data) ==
  {id \in {PanelNodeId} : HasNode(data, id)}
    \cup {DeviceNodeId(i - 1) : i \in {j \in 1..Len(s.devices) :
                                        /\ HasNode(data, DeviceNodeId(j - 1))
                                        /\ s.devices[j].type \in SymbolKeys}}
    \cup {EolRenderKey(s.circuits[c].id) :
            c \in {k \in 1..Len(s.circuits) :
                     HasNode(data, EolRenderKey(s.circuits[k].id))}}

\* the circuit ids that begin with "NAC"
NacPrefixed == {"NAC", "NAC1"}

\* edge.circuitId === "NAC1" || edge.circuitId?.startsWith("NAC")
Dashed(edge) == edge.circuitId \in NacPrefixed

\* circuitPaths: one polyline for every edge with at least two points
RenderedPaths(data) ==
  LET drawn == SelectSeq(data.edges, LAMBDA e : Len(e.bendPoints) >= 2)
  IN [k \in 1..Len(drawn) |->
        [key |-> drawn[k].id, pts |-> drawn[k].bendPoints, color |-> "black",
         dashed |-> Dashed(drawn[k])]]

\* C16: a rendered path is dashed if and only if the id of its circuit begins
\* with "NAC"; the paths of other circuits and the PANEL stubs are solid.
C16_DashedIffNacCircuit ==
  View = "diagram" =>
    LET paths == RenderedPaths(layoutData.data)
    IN \A k \in 1..Len(paths) :
         paths[k].dashed <=> paths[k].key.circuit \in NacPrefixed

\* C17: every node and every edge of the layout result is rendered.
C17_EverythingRendered ==
  View = "diagram" =>
    LET data == layoutData.data
        paths == RenderedPaths(data)
    IN /\ \A i \in 1..Len(data.nodes) :
            data.nodes[i].id \in RenderedNodes(spec, data)
       /\ \A i \in 1..Len(data.edges) :
            \E k \in 1..Len(paths) :
              /\ paths[k].key = data.edges[i].id
              /\ paths[k].pts = data.edges[i].bendPoints

\* C18: once a geometry is displayed, no start of a compile and no failed
\* compile clears it.
C18_GeometryNeverCleared ==
  [][layoutData.present => layoutData'.present]_vars

\* elkLayout resolved, through the bus router or through the fallback
LegacyResolved == pc = "resolved" /\ compiler = "elkLayout"

\* C19: in the legacy layout the result node of the panel and of every device
\* has exactly the x and y of the spec, whether the engine call returned or
\* failed.
C19_PositionsVerbatim ==
  LegacyResolved =>
    /\ HasNode(result, PanelNodeId)
    /\ MapGet(result.nodes, PanelNodeId).x = spec.panel.x
    /\ MapGet(result.nodes, PanelNodeId).y = spec.panel.y
    /\ \A i \in 1..Len(spec.devices) :
         /\ HasNode(result, DeviceNodeId(i - 1))
         /\ MapGet(result.nodes, DeviceNodeId(i - 1)).x = spec.devices[i].x
         /\ MapGet(result.nodes, DeviceNodeId(i - 1)).y = spec.devices[i].y

\* C19 witness: the bus router ran on three devices and the third node is
\* where the spec puts the third device
C19_Witness ==
  /\ LegacyResolved /\ engine = "ok"
  /\ Len(spec.devices) = 3
  /\ spec.devices[3] = Device("HornStrobe", "NAC1", 150, 110)
  /\ MapGet(result.nodes, DeviceNodeId(2)).x = 150
  /\ MapGet(result.nodes, DeviceNodeId(2)).y = 110
  /\ MapGet(result.nodes, PanelNodeId).x = 100

\* C20: the fallback layout connects the panel to each device of every
\* declared circuit by a path of its own with exactly two points, the panel
\* attachment point and the device attachment point; it has no bus edge and
\* no path with a bend.
C20_FallbackStraightPaths ==
  (LegacyResolved /\ engine = "failed") =>
    /\ \A c \in 1..Len(spec.circuits) :
         \A i \in Members(spec, spec.circuits[c].id) :
           LET paths == {e \in 1..Len(result.edges) :
                           result.edges[e].target = DeviceNodeId(i - 1)}
           IN /\ Cardinality(paths) = 1
              /\ \A e \in paths :
                   /\ result.edges[e].source = PanelNodeId
                   /\ result.edges[e].bendPoints
                        = << PanelAttach(spec), DeviceAttach(spec.devices[i]) >>
    /\ \A e \in 1..Len(result.edges) :
         /\ Len(result.edges[e].bendPoints) = 2
         /\ result.edges[e].id.kind # "bus"

\* C20 witness: the fallback drew three straight paths for the devices of two
\* circuits
C20_Witness ==
  /\ LegacyResolved /\ engine = "failed"
  /\ Len(spec.devices) = 3
  /\ Members(spec, "SLC") # {} /\ Members(spec, "NAC1") # {}
  /\ Len(spec.circuits) = 2 /\ spec.circuits[2].id = "NAC1"
  /\ Len(result.edges) = 3

\* C21: in the graph handed to the engine an edge names a source port if and
\* only if it leaves the panel: every edge whose source is the panel names the
\* panel port of its circuit, and no edge whose source is a device names one.
C21_SourcePortOnFirstHopOnly ==
  DslCompiled =>
    \A c \in 1..Len(spec.circuits) :
      LET circuit == spec.circuits[c]
          edges == DslEdgesOf(DslGraph(spec).edges, circuit.id)
      IN \A k \in 1..Len(edges) :
           LET named == edges[k].hasSourcePort /\ edges[k].sourcePort # EmptyPort
           IN /\ edges[k].source = DslPanelNodeId(spec) =>
                   /\ named
                   /\ edges[k].sourcePort = PortId(spec.panel.id, circuit.from.port)
              /\ edges[k].source # DslPanelNodeId(spec) => ~named

\* the two points differ in at most one coordinate
Orthogonal(p, q) == p[1] = q[1] \/ p[2] = q[2]

\* C22: every path of the manual router (bus polylines and PANEL stubs) is
\* orthogonal: consecutive points differ in at most one coordinate.
C22_PathsOrthogonal ==
  LegacyRouted =>
    \A e \in 1..Len(result.edges) :
      LET pts == result.edges[e].bendPoints
      IN \A k \in 1..(Len(pts) - 1) : Orthogonal(pts[k], pts[k + 1])

\* C22 witness: a bus whose EOL is not below its last device, and a PANEL stub
C22_Witness ==
  /\ LegacyRouted
  /\ spec.devices = << Device("Smoke", "SLC", 30, 100), Device("Cell", "PANEL", 80, 10) >>
  /\ spec.eols = << EolDrop("SLC", 80, 7) >>
  /\ HasEdge(result, BusEdgeId("SLC")) /\ HasEdge(result, StubEdgeId(0))
  /\ LastSegment(BusPolyline(result, "SLC")) = << <<80, 119>>, <<80, 126>> >>

\* C23: in a bus polyline the drop to each device ends at the device's bottom
\* edge, y = device.y + bottomOffset(device.type), and the next point is back
\* at the bus elevation.
C23_DropToBottomEdge ==
  LegacyRouted =>
    \A c \in 1..Len(spec.circuits) :
      LET cid == spec.circuits[c].id
          members == Members(spec, cid)
      IN members # {} =>
           LET pts == BusPolyline(result, cid)
           IN \A k \in 1..Cardinality(members) :
                /\ \E i \in members :
                     DropPoint(pts, k) =
                       <<DeviceAttachX(spec.devices[i]),
                         spec.devices[i].y + SymbolHeight(spec.devices[i].type)>>
                /\ pts[3 * k + 2][2] = BusElevation(result, cid)

\* the paths of the result built for a circuit, by the circuit id in their id
PathsOf(res, cid) == {e \in 1..Len(res.edges) : res.edges[e].id.circuit = cid}

\* C24: the manual router emits exactly one path per circuit with a device:
\* one polyline that starts at the panel attachment point and carries the
\* circuit's color; the result holds (number of circuits with a device) +
\* (number of PANEL devices) paths.
C24_OnePathPerCircuit ==
  LegacyRouted =>
    /\ Len(result.edges) =
         Cardinality({c \in 1..Len(spec.circuits) :
                        Members(spec, spec.circuits[c].id) # {}})
           + Cardinality(Members(spec, "PANEL"))
    /\ \A c \in 1..Len(spec.circuits) :
         LET cid == spec.circuits[c].id
         IN Members(spec, cid) # {} =>
              /\ Cardinality(PathsOf(result, cid)) = 1
              /\ \A e \in PathsOf(result, cid) :
                   /\ result.edges[e].id = BusEdgeId(cid)
                   /\ result.edges[e].bendPoints[1] = PanelAttach(spec)
                   /\ result.edges[e].color = spec.circuits[c].color
                   /\ Len(result.edges[e].bendPoints)
                        >= 3 + 3 * Cardinality(Members(spec, cid)) - 1

\* C24 witness: two circuits with devices and one PANEL device give three paths
C24_Witness ==
  /\ LegacyRouted
  /\ Len(spec.circuits) = 2
  /\ Cardinality(Members(spec, "SLC")) = 1
  /\ Cardinality(Members(spec, "NAC1")) = 1
  /\ Cardinality(Members(spec, "PANEL")) = 1
  /\ Len(result.edges) = 3
  /\ HasEdge(result, BusEdgeId("NAC1"))
  /\ MapGet(result.edges, BusEdgeId("NAC1")).color = "blue"

\* C25: the circuit identity attached to every path built for a circuit is
\* the id of that circuit, and in the legacy result its color is the
\* circuit's color.
C25_PathCarriesCircuitId ==
  pc = "resolved" =>
    \A c \in 1..Len(spec.circuits) :
      \A e \in PathsOf(result, spec.circuits[c].id) :
        /\ result.edges[e].circuitId = spec.circuits[c].id
        /\ compiler = "elkLayout" => result.edges[e].color = spec.circuits[c].color

\* C26: a compile leaves its input spec unchanged, on the normal return and
\* on the fallback: spec.devices, spec.circuits and spec.eols keep their
\* elements and their order.
C26_SpecUnchanged == [][spec' = spec]_vars

\* C26 witness: elkLayout has returned from routing devices declared right to
\* left, and they are still declared right to left
C26_Witness ==
  /\ LegacyRouted /\ ~again
  /\ spec.devices = << Device("Pull", "SLC", 60, 100), Device("Smoke", "SLC", 30, 100),
                       Device("Pull", "SLC", 30, 120) >>
  /\ DropPoint(BusPolyline(result, "SLC"), 1) = <<37, 100>>
  /\ DropPoint(BusPolyline(result, "SLC"), 3) = <<66, 100>>

\* C27: for every circuit with devices and an EOL the last point of the bus
\* polyline, (eol.x, bus elevation + drop), is the centre of the EOL node,
\* (node.x + 6, node.y + 3), and that node is the target of the bus edge.
C27_EolAtEndOfDrop ==
  LegacyRouted =>
    \A c \in 1..Len(spec.circuits) :
      LET cid == spec.circuits[c].id
          eolIdx == FindEol(spec, cid)
      IN (Members(spec, cid) # {} /\ eolIdx # 0) =>
           /\ HasNode(result, EolNodeId(eolIdx - 1))
           /\ LET node == MapGet(result.nodes, EolNodeId(eolIdx - 1))
                  pts == BusPolyline(result, cid)
                  seg == LastSegment(pts)
              IN /\ MapGet(result.edges, BusEdgeId(cid)).target = EolNodeId(eolIdx - 1)
                 /\ seg[1] = <<spec.eols[eolIdx].x, BusElevation(result, cid)>>
                 /\ seg[2] = <<node.x + 6, node.y + 3>>

\* C27 witness: Smoke at y = 100, EOL at x = 80 with drop 7: the wire ends at
\* (80, 126) and the node is at (74, 123)
C27_Witness ==
  /\ LegacyRouted
  /\ spec.devices = << Device("Smoke", "SLC", 30, 100) >>
  /\ spec.eols = << EolDrop("SLC", 80, 7) >>
  /\ MapGet(result.nodes, EolNodeId(0)).x = 74
  /\ MapGet(result.nodes, EolNodeId(0)).y = 123
  /\ LastSegment(BusPolyline(result, "SLC"))[2] = <<80, 126>>

\* C28: in every result of the manual router and of the fallback, the source
\* and the target of each path are keys of the result's node map.
C28_EndpointsAreNodes ==
  LegacyResolved =>
    \A e \in 1..Len(result.edges) :
      /\ HasNode(result, result.edges[e].source)
      /\ HasNode(result, result.edges[e].target)

\* C28 witness: a bus that ends in the second EOL entry, a bus that ends in
\* its last device, and a stub
C28_Witness ==
  /\ LegacyRouted
  /\ Len(spec.devices) = 3
  /\ HasEdge(result, StubEdgeId(0))
  /\ \E e \in 1..Len(result.edges) : result.edges[e].target.kind = "eol"
  /\ \E e \in 1..Len(result.edges) :
       result.edges[e].id.kind = "bus" /\ result.edges[e].target.kind = "device"

\* C29: in Riser, error and layoutData are never both non-null: the view is
\* exactly one of Loading (both null), Error (error set, no geometry) and
\* Ready (geometry set, no error).
C29_ErrorXorGeometry ==
  /\ ~(error.present /\ layoutData.present)
  /\ View = "loading" <=> (~error.present /\ ~layoutData.present)
  /\ View = "error" <=> (error.present /\ ~layoutData.present)
  /\ View = "diagram" <=> (layoutData.present /\ ~error.present)

\* C29 witness: two compiles have settled, the latest spec has a panel and
\* resolved, and the view shows the error of the earlier compile
C29_Witness ==
  /\ gen = 2 /\ pending = {}
  /\ spec.hasPanel
  /\ error.present /\ error.gen = 1
  /\ ~layoutData.present

\* C30: after a spec change, if the promise of the latest compile eventually
\* settles, the view eventually leaves Loading for Ready or Error.
C30_LeavesLoading ==
  (gen > 0 /\ View = "loading") ~> (View \in {"diagram", "error"})

\* C30 witness: after the last spec change every promise has settled and the
\* view shows the geometry of the latest compile
C30_Witness ==
  /\ gen = MaxChanges /\ pending = {}
  /\ View = "diagram"
  /\ layoutData.gen = gen

====
